---- MODULE Spec2Model ----
(***************************************************************************)
(* env_init: typed access to configuration values (EnvGetter), and the two *)
(* process-wide containers EnvLazy and EnvOnce built on LazyLock/OnceLock. *)
(*                                                                         *)
(* Strings are sequences of one-character strings.  The target type T of   *)
(* the accessors is instantiated at a signed integer of TBits bits, whose  *)
(* FromStr is modelled digit by digit, overflow included.                  *)
(***************************************************************************)
EXTENDS Integers, Sequences, FiniteSets, TLC

\* ------------------------------------------------------------------ bounds
MaxHeap == 2         \* most values leaked by one accessor run
NumThreads == 2      \* threads sharing one container

\* Width of the integer type the accessors parse into (T = i8).
TBits == 8

VARIABLES
    getter,     \* EnvGetter.getter: name -> Result<String, G>
    leaked,     \* permanent storage: the values leaked so far, in order
    last,       \* the accessor call made last, with its outcome
    container,  \* which container the process declares: "lazy" or "once"
    once,       \* EnvLazy: state of the LazyLock's Once
    lazyVal,    \* EnvLazy: the built value, None before the build
    lpc,        \* EnvLazy: each thread's position in deref
    lret,       \* EnvLazy: how each thread's last deref ended
    lazyRuns,   \* EnvLazy: number of executions of T::new started
    lazyFailed, \* EnvLazy: T::new has panicked during the build
    lobs,       \* EnvLazy: every value a deref has returned
    cell,       \* EnvOnce: the OnceLock's content, None when Empty
    opc,        \* EnvOnce: each thread's position in init
    oheld,      \* EnvOnce: the value T::new returned to a thread inside init
    oret,       \* EnvOnce: how each thread's last init/deref ended
    onceRuns,   \* EnvOnce: number of executions of T::new started
    cellHist,   \* EnvOnce: every value stored into the cell, in order
    oobs        \* EnvOnce: every value a deref has returned

accVars == <<getter, leaked, last>>
lazyVars == <<once, lazyVal, lpc, lret, lazyRuns, lazyFailed, lobs>>
onceVars == <<cell, opc, oheld, oret, onceRuns, cellHist, oobs>>
vars == <<getter, leaked, last, container, once, lazyVal, lpc, lret, lazyRuns,
          lazyFailed, lobs, cell, opc, oheld, oret, onceRuns, cellHist, oobs>>

\* ------------------------------------------------------------ result types
None == [tag |-> "None", val |-> "-"]
Some(v) == [tag |-> "Some", val |-> v]
Ok(v) == [tag |-> "Ok", val |-> v]
Err(e) == [tag |-> "Err", val |-> e]
GetterError(g) == [kind |-> "GetterError", err |-> g]
ParseError(p) == [kind |-> "ParseError", err |-> p]
Return(v) == [tag |-> "Return", val |-> v]
Panic(msg) == [tag |-> "Panic", val |-> msg]

\* ------------------------------------------------------- strings and parse
DigitVal == ("0" :> 0) @@ ("1" :> 1) @@ ("2" :> 2) @@ ("3" :> 3) @@ ("4" :> 4)
         @@ ("5" :> 5) @@ ("6" :> 6) @@ ("7" :> 7) @@ ("8" :> 8) @@ ("9" :> 9)

T_MIN == -(2 ^ (TBits - 1))
T_MAX == 2 ^ (TBits - 1) - 1
InT(n) == T_MIN <= n /\ n <= T_MAX

\* The digit loop of the integer parse: checked multiply, digit test,
\* checked add (or subtract for a negative number), left to right.
RECURSIVE ParseDigits(_, _, _)
ParseDigits(digits, result, positive) ==
    IF digits = <<>> THEN Ok(result)
    ELSE LET c == Head(digits)
             mul == result * 10
             overflow == IF positive THEN "PosOverflow" ELSE "NegOverflow"
         IN IF c \notin DOMAIN DigitVal THEN Err("InvalidDigit")
            ELSE IF ~InT(mul) THEN Err(overflow)
            ELSE LET next == IF positive THEN mul + DigitVal[c]
                                         ELSE mul - DigitVal[c]
                 IN IF ~InT(next) THEN Err(overflow)
                    ELSE ParseDigits(Tail(digits), next, positive)

\* str::parse::<T>() for the signed integer T.
FromStr(src) ==
    IF src = <<>> THEN Err("Empty")
    ELSE IF src = <<"+">> \/ src = <<"-">> THEN Err("InvalidDigit")
    ELSE IF src[1] = "+" THEN ParseDigits(Tail(src), 0, TRUE)
    ELSE IF src[1] = "-" THEN ParseDigits(Tail(src), 0, FALSE)
    ELSE ParseDigits(src, 0, TRUE)

\* ------------------------------------------------------------ the retriever
Names == {"INT_OK", "INT_BAD", "MISSING", "VAR"}
VarErrors == {"NotPresent", "NotUnicode"}

\* mock_getter of the tests, extended by the name "VAR" whose outcome is free.
mock_getter(free) ==
    [key \in Names |->
        CASE key = "INT_OK" -> Ok(<<"4", "2">>)
          [] key = "INT_BAD" -> Ok(<<"n", "o", "t", "_", "a", "n", "_", "i", "n", "t">>)
          [] key = "MISSING" -> Err("NotPresent")
          [] OTHER -> free]

\* Raw values the retriever may hold for "VAR": one for each way the parse
\* can end, the limits of T included.
RawValues ==
    { <<>>, <<"-">>, <<"+", "5">>, <<"0", "0", "7">>, <<"4", "2">>,
      <<"1", "2", "7">>, <<"1", "2", "8">>, <<"2", "2", "2">>,
      <<"-", "1", "2", "8">>, <<"-", "1", "2", "9">>,
      <<"4", "2", " ">>, <<"2", "2", "2", "x">> }

Outcomes == {Ok(s) : s \in RawValues} \cup {Err(g) : g \in VarErrors}

\* EnvGetter::new
EnvGetter(g) == [getter |-> g]

\* ------------------------------------------------------- owned accessors
\* Variant: the two map_err wrappers exchanged.
owned_var_try_swapped(self, name) ==
    LET var == self.getter[name]
    IN IF var.tag = "Err" THEN Err(ParseError(var.val))
       ELSE LET parsed == FromStr(var.val)
            IN IF parsed.tag = "Err" THEN Err(GetterError(parsed.val))
               ELSE Ok(parsed.val)

owned_var_try(self, name) ==
    LET var == self.getter[name]
    IN IF var.tag = "Err" THEN Err(GetterError(var.val))
       ELSE LET parsed == FromStr(var.val)
            IN IF parsed.tag = "Err" THEN Err(ParseError(parsed.val))
               ELSE Ok(parsed.val)

PanicMessage(name) ==
    <<"Couldn't find or parse env variable ", name, " for given type">>

\* Variant: the panic message without {name}.
owned_var_nameless(self, name) ==
    LET r == owned_var_try(self, name)
    IN IF r.tag = "Ok" THEN Return(r.val)
       ELSE Panic(<<"Couldn't find or parse env variable for given type">>)

owned_var(self, name) ==
    LET r == owned_var_try(self, name)
    IN IF r.tag = "Ok" THEN Return(r.val) ELSE Panic(PanicMessage(name))

\* The value handed back, and whether it is the parsed value or the default
\* argument (T need not support equality, so the two are told apart by origin).
\* Variant: falls back on a getter error only.
owned_var_or_getter_only(self, name, default) ==
    LET r == owned_var_try(self, name)
    IN IF r.tag = "Ok" THEN [val |-> r.val, from |-> "parsed"]
       ELSE IF r.val.kind = "GetterError" THEN [val |-> default, from |-> "default"]
       ELSE [val |-> 0, from |-> "parsed"]

owned_var_or(self, name, default) ==
    LET r == owned_var_try(self, name)
    IN IF r.tag = "Ok" THEN [val |-> r.val, from |-> "parsed"]
       ELSE [val |-> default, from |-> "default"]

\* default is a closure returning dval; dcalls counts its invocations.
\* Variant: the closure evaluated before the lookup (unwrap_or(default())).
owned_var_or_else_eager(self, name, dval) ==
    LET d == dval
        r == owned_var_try(self, name)
    IN IF r.tag = "Ok" THEN [val |-> r.val, from |-> "parsed", dcalls |-> 1]
       ELSE [val |-> d, from |-> "default", dcalls |-> 1]

owned_var_or_else(self, name, dval) ==
    LET r == owned_var_try(self, name)
    IN IF r.tag = "Ok" THEN [val |-> r.val, from |-> "parsed", dcalls |-> 0]
       ELSE [val |-> dval, from |-> "default", dcalls |-> 1]

\* ------------------------------------------------------ leaking accessors
\* A &'static T: an address of permanent storage, or a static of the caller.
HeapRef(i) == [area |-> "heap", at |-> i]
StaticRef(v) == [area |-> "static", at |-> v]
Deref(heap, ref) == IF ref.area = "heap" THEN heap[ref.at] ELSE ref.at

\* Box::leak(Box::new(to_leak))
leak(heap, to_leak) ==
    [heap |-> Append(heap, to_leak), ref |-> HeapRef(Len(heap) + 1)]

\* Variant: leaks on the error path too.
var_try_leak_always(self, heap, name) ==
    LET r == owned_var_try(self, name)
    IN IF r.tag = "Ok"
       THEN LET l == leak(heap, r.val) IN [out |-> Ok(l.ref), heap |-> l.heap]
       ELSE [out |-> r, heap |-> Append(heap, 0)]

var_try(self, heap, name) ==
    LET r == owned_var_try(self, name)
    IN IF r.tag = "Ok"
       THEN LET l == leak(heap, r.val) IN [out |-> Ok(l.ref), heap |-> l.heap]
       ELSE [out |-> r, heap |-> heap]

var(self, heap, name) ==
    LET r == var_try(self, heap, name)
    IN IF r.out.tag = "Ok"
       THEN [out |-> Return(r.out.val), heap |-> r.heap]
       ELSE [out |-> Panic(PanicMessage(name)), heap |-> r.heap]

var_or(self, heap, name, default) ==
    LET r == var_try(self, heap, name)
    IN IF r.out.tag = "Ok"
       THEN [out |-> r.out.val, from |-> "parsed", heap |-> r.heap]
       ELSE [out |-> default, from |-> "default", heap |-> r.heap]

\* self.var_or(name, Box::leak(default().into())): the argument is evaluated
\* before var_or is entered.
var_or_else(self, heap, name, dval) ==
    LET d == leak(heap, dval)
        r == var_or(self, d.heap, name, d.ref)
    IN [out |-> r.out, from |-> r.from, heap |-> r.heap, dcalls |-> 1]

\* ------------------------------------------------------- accessor actions
Defaults == {42, 123}
DefaultFnResults == {99}
NoCall == [op |-> "none", name |-> "-", dflt |-> "-", out |-> "-", from |-> "-",
           dcalls |-> 0, heap0 |-> 0, repeat |-> FALSE, prev |-> "-"]

Call(op, name, dflt, out, from, dcalls, repeat) ==
    [op |-> op, name |-> name, dflt |-> dflt, out |-> out, from |-> from,
     dcalls |-> dcalls, heap0 |-> Len(leaked), repeat |-> repeat,
     prev |-> IF repeat THEN last.out ELSE "-"]

accessor == EnvGetter(getter)

AccInit ==
    /\ getter \in {mock_getter(free) : free \in Outcomes}
    /\ leaked = <<>>
    /\ last = NoCall

OwnedVarTry(name) ==
    /\ last' = Call("owned_var_try", name, "-", owned_var_try(accessor, name), "-", 0, FALSE)
    /\ UNCHANGED <<getter, leaked>>

OwnedVar(name) ==
    /\ last' = Call("owned_var", name, "-", owned_var(accessor, name), "-", 0, FALSE)
    /\ UNCHANGED <<getter, leaked>>

OwnedVarOr(name, default) ==
    LET r == owned_var_or(accessor, name, default)
        repeat == last.op = "owned_var_or" /\ last.name = name /\ last.dflt = default
    IN /\ last' = Call("owned_var_or", name, default, r.val, r.from, 0, repeat)
       /\ UNCHANGED <<getter, leaked>>

OwnedVarOrElse(name, dval) ==
    LET r == owned_var_or_else(accessor, name, dval)
    IN /\ last' = Call("owned_var_or_else", name, dval, r.val, r.from, r.dcalls, FALSE)
       /\ UNCHANGED <<getter, leaked>>

VarTry(name) ==
    LET r == var_try(accessor, leaked, name)
    IN /\ Len(r.heap) <= MaxHeap
       /\ last' = Call("var_try", name, "-", r.out, "-", 0, FALSE)
       /\ leaked' = r.heap
       /\ UNCHANGED getter

Var(name) ==
    LET r == var(accessor, leaked, name)
    IN /\ Len(r.heap) <= MaxHeap
       /\ last' = Call("var", name, "-", r.out, "-", 0, FALSE)
       /\ leaked' = r.heap
       /\ UNCHANGED getter

VarOr(name, default) ==
    LET r == var_or(accessor, leaked, name, StaticRef(default))
    IN /\ Len(r.heap) <= MaxHeap
       /\ last' = Call("var_or", name, StaticRef(default), r.out, r.from, 0, FALSE)
       /\ leaked' = r.heap
       /\ UNCHANGED getter

VarOrElse(name, dval) ==
    LET r == var_or_else(accessor, leaked, name, dval)
    IN /\ Len(r.heap) <= MaxHeap
       /\ last' = Call("var_or_else", name, dval, r.out, r.from, r.dcalls, FALSE)
       /\ leaked' = r.heap
       /\ UNCHANGED getter

AccNext ==
    \/ \E name \in Names : OwnedVarTry(name)
    \/ \E name \in Names : OwnedVar(name)
    \/ \E name \in Names, default \in Defaults : OwnedVarOr(name, default)
    \/ \E name \in Names, dval \in DefaultFnResults : OwnedVarOrElse(name, dval)
    \/ \E name \in Names : VarTry(name)
    \/ \E name \in Names : Var(name)
    \/ \E name \in Names, default \in Defaults : VarOr(name, default)
    \/ \E name \in Names, dval \in DefaultFnResults : VarOrElse(name, dval)

\* ------------------------------------------------------------ the factory
Threads == 1..NumThreads

\* What the process environment holds for "INT_OK" when a factory runs.
EnvSnapshots ==
    {[mock_getter(Err("NotPresent")) EXCEPT !["INT_OK"] = src] :
        src \in {Ok(<<"4", "2">>), Ok(<<"7">>), Err("NotPresent")}}

\* <DummyEnv as Env>::new, its integer fields: a required one, a defaulted
\* one and an optional one.  A panic of owned_var ends the factory.
DummyEnvNew(g) ==
    LET a == EnvGetter(g)
        some_int == owned_var(a, "INT_OK")
        opt == owned_var_try(a, "MISSING")
    IN IF some_int.tag = "Panic" THEN some_int
       ELSE Return([some_int |-> some_int.val,
                    some_other_int |-> owned_var_or(a, "INT_BAD", 100).val,
                    opt_int |-> IF opt.tag = "Ok" THEN Some(opt.val) ELSE None])

\* How a thread's call ended: the call, its outcome, the container's content
\* when the call was made, before its last step and after it.
NeverCalled == [op |-> "none", out |-> None, entry |-> None, pre |-> None,
                post |-> None, waited |-> FALSE]
Ended(op, out, entry, pre, post, waited) ==
    [op |-> op, out |-> out, entry |-> entry, pre |-> pre, post |-> post,
     waited |-> waited]

\* ------------------------------------------------------------------ EnvLazy
PoisonedMessage == <<"LazyLock instance has previously been poisoned">>

\* What a dereference does on finding the Once in a given state.
\* Variant: a running build does not keep other threads out.
OnceEnter_no_exclusion(state) ==
    CASE state = "complete" -> "read"
      [] state = "poisoned" -> "panic"
      [] OTHER -> "build"

OnceEnter(state) ==
    CASE state = "complete" -> "read"
      [] state = "poisoned" -> "panic"
      [] state = "incomplete" -> "build"
      [] OTHER -> "wait"

\* The state a panicking factory leaves the Once in.
\* Variant: a panicked build is retried by the next dereference.
OnceAfterPanic_retry(state) == "incomplete"

OnceAfterPanic(state) == "poisoned"

LazyInit ==
    /\ once = "incomplete"
    /\ lazyVal = None
    /\ lpc = [t \in Threads |-> "idle"]
    /\ lret = [t \in Threads |-> NeverCalled]
    /\ lazyRuns = 0
    /\ lazyFailed = FALSE
    /\ lobs = {}

LazyFinish(t, out, waited) ==
    /\ lret' = [lret EXCEPT ![t] = Ended("deref", out, None, None, None, waited)]
    /\ lpc' = [lpc EXCEPT ![t] = IF out.tag = "Return" THEN "idle" ELSE "dead"]
    /\ lobs' = IF out.tag = "Return" THEN lobs \cup {out.val} ELSE lobs

\* deref on a built container: a read of the value.
LazyDerefRead(t) ==
    /\ container = "lazy" /\ lpc[t] = "idle"
    /\ OnceEnter(once) = "read"
    /\ LazyFinish(t, Return(lazyVal.val), FALSE)
    /\ UNCHANGED <<once, lazyVal, lazyRuns, lazyFailed>>
    /\ UNCHANGED <<accVars, container, onceVars>>

\* deref on a poisoned container.
LazyDerefPoisoned(t) ==
    /\ container = "lazy" /\ lpc[t] = "idle"
    /\ OnceEnter(once) = "panic"
    /\ LazyFinish(t, Panic(PoisonedMessage), FALSE)
    /\ UNCHANGED <<once, lazyVal, lazyRuns, lazyFailed>>
    /\ UNCHANGED <<accVars, container, onceVars>>

\* The dereference that finds the container unbuilt starts T::new.
LazyDerefBuild(t) ==
    /\ container = "lazy" /\ lpc[t] = "idle"
    /\ OnceEnter(once) = "build"
    /\ once' = "running"
    /\ lpc' = [lpc EXCEPT ![t] = "new"]
    /\ lazyRuns' = lazyRuns + 1
    /\ UNCHANGED <<lazyVal, lret, lazyFailed, lobs>>
    /\ UNCHANGED <<accVars, container, onceVars>>

\* A dereference made while another thread builds blocks.
LazyDerefWait(t) ==
    /\ container = "lazy" /\ lpc[t] = "idle"
    /\ OnceEnter(once) = "wait"
    /\ lpc' = [lpc EXCEPT ![t] = "waiting"]
    /\ UNCHANGED <<once, lazyVal, lret, lazyRuns, lazyFailed, lobs>>
    /\ UNCHANGED <<accVars, container, onceVars>>

LazyNewReturn(t, g) ==
    /\ container = "lazy" /\ lpc[t] = "new"
    /\ DummyEnvNew(g).tag = "Return"
    /\ lazyVal' = Some(DummyEnvNew(g).val)
    /\ once' = "complete"
    /\ LazyFinish(t, Return(DummyEnvNew(g).val), FALSE)
    /\ UNCHANGED <<lazyRuns, lazyFailed>>
    /\ UNCHANGED <<accVars, container, onceVars>>

LazyNewPanic(t, g) ==
    /\ container = "lazy" /\ lpc[t] = "new"
    /\ DummyEnvNew(g).tag = "Panic"
    /\ once' = OnceAfterPanic(once)
    /\ lazyFailed' = TRUE
    /\ LazyFinish(t, DummyEnvNew(g), FALSE)
    /\ UNCHANGED <<lazyVal, lazyRuns>>
    /\ UNCHANGED <<accVars, container, onceVars>>

\* A blocked dereference resumes once the build has ended.
LazyWake(t) ==
    /\ container = "lazy" /\ lpc[t] = "waiting"
    /\ \/ /\ OnceEnter(once) = "read"
          /\ LazyFinish(t, Return(lazyVal.val), TRUE)
       \/ /\ OnceEnter(once) = "panic"
          /\ LazyFinish(t, Panic(PoisonedMessage), TRUE)
    /\ UNCHANGED <<once, lazyVal, lazyRuns, lazyFailed>>
    /\ UNCHANGED <<accVars, container, onceVars>>

LazyNext ==
    \/ \E t \in Threads : LazyDerefRead(t)
    \/ \E t \in Threads : LazyDerefPoisoned(t)
    \/ \E t \in Threads : LazyDerefBuild(t)
    \/ \E t \in Threads : LazyDerefWait(t)
    \/ \E t \in Threads, g \in EnvSnapshots : LazyNewReturn(t, g)
    \/ \E t \in Threads, g \in EnvSnapshots : LazyNewPanic(t, g)
    \/ \E t \in Threads : LazyWake(t)

\* ------------------------------------------------------------------ EnvOnce
InitFailedMessage == <<"Failed to initialize environment">>
NotInitializedMessage == <<"Environment not initialized">>

\* OnceLock::set: stores into an empty cell, hands the value back otherwise.
\* Variant: set replaces a value already stored.
OnceLockSet_overwrite(c, value) == [cell |-> Some(value), res |-> Ok("()")]

OnceLockSet(c, value) ==
    IF c = None THEN [cell |-> Some(value), res |-> Ok("()")]
    ELSE [cell |-> c, res |-> Err(value)]

\* OnceLock::get
OnceLockGet(c) == c

OnceInit ==
    /\ cell = None
    /\ opc = [t \in Threads |-> "idle"]
    /\ oheld = [t \in Threads |-> None]
    /\ oret = [t \in Threads |-> NeverCalled]
    /\ onceRuns = 0
    /\ cellHist = <<>>
    /\ oobs = {}

\* init() is entered: the argument of set, T::new(), starts executing.
OnceInitCall(t) ==
    /\ container = "once" /\ opc[t] = "idle"
    /\ opc' = [opc EXCEPT ![t] = "new"]
    /\ onceRuns' = onceRuns + 1
    /\ oret' = [oret EXCEPT ![t] = Ended("init", None, cell, cell, cell, FALSE)]
    /\ UNCHANGED <<cell, oheld, cellHist, oobs>>
    /\ UNCHANGED <<accVars, container, lazyVars>>

OnceNewReturn(t, g) ==
    /\ container = "once" /\ opc[t] = "new"
    /\ DummyEnvNew(g).tag = "Return"
    /\ oheld' = [oheld EXCEPT ![t] = Some(DummyEnvNew(g).val)]
    /\ opc' = [opc EXCEPT ![t] = "set"]
    /\ UNCHANGED <<cell, oret, onceRuns, cellHist, oobs>>
    /\ UNCHANGED <<accVars, container, lazyVars>>

\* T::new() panics: the panic leaves init() before set is reached.
OnceNewPanic(t, g) ==
    /\ container = "once" /\ opc[t] = "new"
    /\ DummyEnvNew(g).tag = "Panic"
    /\ cell' = cell
    /\ opc' = [opc EXCEPT ![t] = "dead"]
    /\ oret' = [oret EXCEPT ![t] =
                  Ended("init", DummyEnvNew(g), oret[t].entry, cell, cell', FALSE)]
    /\ UNCHANGED <<oheld, onceRuns, cellHist, oobs>>
    /\ UNCHANGED <<accVars, container, lazyVars>>

\* self.0.set(value).unwrap_or_else(|_| panic!(..))
OnceSet(t) ==
    /\ container = "once" /\ opc[t] = "set"
    /\ LET r == OnceLockSet(cell, oheld[t].val)
           out == IF r.res.tag = "Ok" THEN Return("()") ELSE Panic(InitFailedMessage)
       IN /\ cell' = r.cell
          /\ cellHist' = IF r.res.tag = "Ok" THEN Append(cellHist, oheld[t].val)
                         ELSE cellHist
          /\ opc' = [opc EXCEPT ![t] = IF r.res.tag = "Ok" THEN "idle" ELSE "dead"]
          /\ oret' = [oret EXCEPT ![t] = Ended("init", out, oret[t].entry, cell, r.cell, FALSE)]
    /\ oheld' = [oheld EXCEPT ![t] = None]
    /\ UNCHANGED <<onceRuns, oobs>>
    /\ UNCHANGED <<accVars, container, lazyVars>>

\* self.0.get().unwrap_or_else(|| panic!(..))
OnceDeref(t) ==
    /\ container = "once" /\ opc[t] = "idle"
    /\ LET got == OnceLockGet(cell)
           out == IF got.tag = "Some" THEN Return(got.val)
                  ELSE Panic(NotInitializedMessage)
       IN /\ oret' = [oret EXCEPT ![t] = Ended("deref", out, cell, cell, cell, FALSE)]
          /\ opc' = [opc EXCEPT ![t] = IF got.tag = "Some" THEN "idle" ELSE "dead"]
          /\ oobs' = IF got.tag = "Some" THEN oobs \cup {got.val} ELSE oobs
    /\ UNCHANGED <<cell, oheld, onceRuns, cellHist>>
    /\ UNCHANGED <<accVars, container, lazyVars>>

OnceNext ==
    \/ \E t \in Threads : OnceInitCall(t)
    \/ \E t \in Threads, g \in EnvSnapshots : OnceNewReturn(t, g)
    \/ \E t \in Threads, g \in EnvSnapshots : OnceNewPanic(t, g)
    \/ \E t \in Threads : OnceSet(t)
    \/ \E t \in Threads : OnceDeref(t)

\* ------------------------------------------------------------ specifications
\* The accessors: one EnvGetter over a retriever, called any number of times.
Init ==
    /\ AccInit
    /\ container = "lazy" /\ LazyInit /\ OnceInit

Next ==
    /\ AccNext
    /\ UNCHANGED <<container, lazyVars, onceVars>>

Spec == Init /\ [][Next]_vars

\* The containers: a process declares one static container, of either kind,
\* and its threads use it.
EnvInit ==
    /\ getter = mock_getter(Err("NotPresent")) /\ leaked = <<>> /\ last = NoCall
    /\ container \in {"lazy", "once"}
    /\ LazyInit /\ OnceInit

EnvNext == LazyNext \/ OnceNext

SpecEnv == EnvInit /\ [][EnvNext]_vars

\* ------------------------------------------------------------------ claims
\* Retrieval or parsing fails for name under the current retriever.
Fails(name) ==
    IF getter[name].tag = "Err" THEN TRUE
    ELSE FromStr(getter[name].val).tag = "Err"

Parsed(name) == FromStr(getter[name].val).val

Mentions(msg, name) == \E i \in DOMAIN msg : msg[i] = name

\* The values the last call moved to permanent storage.
LeakedByLast == SubSeq(leaked, last.heap0 + 1, Len(leaked))

\* C1: however the threads' dereferences of one EnvLazy interleave, T::new is
\* started at most once; a dereference returns only after that one execution
\* has completed, and every dereference returns the one built value.
C1_LazyBuildsOnce ==
    /\ lazyRuns <= 1
    /\ \A t \in Threads :
          lret[t].out.tag = "Return" =>
              /\ lazyRuns = 1
              /\ once = "complete"
              /\ lazyVal = Some(lret[t].out.val)
    /\ lobs # {} => lobs = {lazyVal.val}
    /\ \A t \in Threads : lpc[t] = "waiting" => lazyRuns = 1

C1_Witness ==
    \E t1, t2 \in Threads :
        /\ t1 # t2
        /\ lret[t1].out.tag = "Return" /\ ~lret[t1].waited
        /\ lret[t2].out.tag = "Return" /\ lret[t2].waited

\* C2: an EnvOnce is stored into at most once, is never emptied again, keeps
\* the value first stored, and every dereference that returns hands back
\* that value.
C2_OnceStoredOnce ==
    /\ Len(cellHist) <= 1
    /\ cell = IF cellHist = <<>> THEN None ELSE Some(cellHist[1])
    /\ oobs \subseteq {cellHist[i] : i \in DOMAIN cellHist}
    /\ \A t \in Threads :
          (oret[t].op = "deref" /\ oret[t].out.tag = "Return") =>
              cell = Some(oret[t].out.val)

C2_Witness ==
    /\ Len(cellHist) = 1
    /\ oobs # {}
    /\ \E t \in Threads :
          oret[t].op = "init" /\ oret[t].out = Panic(InitFailedMessage)

\* C3: across all init() calls on one EnvOnce, those that end in the fatal
\* error included, T::new is executed at most once.
C3_FactoryAtMostOnce == onceRuns <= 1

\* C4: a dereference of an Empty EnvOnce ends in the 'not initialized' error
\* and leaves it Empty; an init() call made on an Initialized EnvOnce ends in
\* the error of a repeated initialization and leaves the value unchanged; the
\* two messages differ and neither names a configuration key.
C4_MisuseOutcomes ==
    /\ InitFailedMessage # NotInitializedMessage
    /\ \A t \in Threads :
          /\ (oret[t].op = "deref" /\ oret[t].entry = None) =>
                /\ oret[t].out = Panic(NotInitializedMessage)
                /\ oret[t].post = None
          /\ (oret[t].op = "init" /\ oret[t].entry # None /\ opc[t] \in {"idle", "dead"}) =>
                /\ oret[t].out = Panic(InitFailedMessage)
                /\ oret[t].post = oret[t].entry
                /\ \A key \in Names : ~Mentions(oret[t].out.val, key)

\* C5: owned_var_try wraps a retrieval error as GetterError, a parse error as
\* ParseError, and returns the parsed value otherwise; on the retriever of
\* the tests that is Ok(42), a parse error and a getter error.
C5_OwnedVarTryClassifies ==
    last.op = "owned_var_try" =>
        LET raw == getter[last.name]
        IN /\ raw.tag = "Err" => last.out = Err(GetterError(raw.val))
           /\ (raw.tag = "Ok" /\ FromStr(raw.val).tag = "Err") =>
                 last.out = Err(ParseError(FromStr(raw.val).val))
           /\ (raw.tag = "Ok" /\ FromStr(raw.val).tag = "Ok") =>
                 last.out = Ok(FromStr(raw.val).val)
           /\ last.name = "INT_OK" => last.out = Ok(42)
           /\ last.name = "INT_BAD" => last.out = Err(ParseError("InvalidDigit"))
           /\ last.name = "MISSING" => last.out = Err(GetterError("NotPresent"))

C5_Witness ==
    /\ last.op = "owned_var_try"
    /\ last.name = "VAR"
    /\ last.out = Err(ParseError("NegOverflow"))

\* C6: owned_var_or hands back its default argument exactly when retrieval or
\* parsing fails, whichever of the two it is, and the parsed value otherwise;
\* a repeated call with the same name and default gives the same result.
C6_OwnedVarOrFallsBack ==
    last.op = "owned_var_or" =>
        /\ (last.from = "default") <=> Fails(last.name)
        /\ last.from = "default" => last.out = last.dflt
        /\ last.from = "parsed" => last.out = Parsed(last.name)
        /\ last.repeat => last.out = last.prev

C6_Witness ==
    /\ last.op = "owned_var_or"
    /\ last.repeat
    /\ last.from = "default"
    /\ getter[last.name].tag = "Ok"

\* C7: owned_var_or_else invokes default_fn once when retrieval or parsing
\* fails and returns its result, and never invokes it when they succeed.
C7_OrElseInvokesOnFailureOnly ==
    last.op = "owned_var_or_else" =>
        /\ last.dcalls = IF Fails(last.name) THEN 1 ELSE 0
        /\ Fails(last.name) => (last.from = "default" /\ last.out = last.dflt)
        /\ ~Fails(last.name) => (last.from = "parsed" /\ last.out = Parsed(last.name))

C7_Witness ==
    /\ last.op = "owned_var_or_else"
    /\ last.dcalls = 0
    /\ last.out = -128

\* C8: owned_var and var return the parsed value when retrieval and parsing
\* succeed and otherwise panic with a message that contains the name; the
\* _try accessors always return a value or an error union.
C8_RequiredPanicsNamingVariable ==
    /\ last.op \in {"owned_var", "var"} =>
          /\ ~Fails(last.name) =>
                /\ last.out.tag = "Return"
                /\ Parsed(last.name) =
                      IF last.op = "var" THEN Deref(leaked, last.out.val)
                      ELSE last.out.val
          /\ Fails(last.name) =>
                /\ last.out.tag = "Panic"
                /\ Mentions(last.out.val, last.name)
    /\ last.op \in {"owned_var_try", "var_try"} => last.out.tag \in {"Ok", "Err"}

C8_Witness ==
    /\ last.op = "owned_var"
    /\ last.name = "INT_BAD"
    /\ last.out = Panic(PanicMessage("INT_BAD"))

\* C9: var_try, var and var_or leak the parsed value, and only it, on success
\* and nothing on failure; var_or_else leaks exactly one value per call, the
\* parsed value on success or the result of default_fn on failure.
C9_OneLeakPerCall ==
    /\ last.op \in {"var_try", "var", "var_or"} =>
          LeakedByLast = IF Fails(last.name) THEN <<>> ELSE <<Parsed(last.name)>>
    /\ last.op = "var_or_else" =>
          LeakedByLast = IF Fails(last.name) THEN <<last.dflt>>
                         ELSE <<Parsed(last.name)>>

\* C10: once T::new has panicked during the build of an EnvLazy no dereference
\* of it has returned or returns a value, the waiting and the later ones end
\* in a panic; an init() of an EnvOnce whose T::new panics ends in that panic
\* and leaves the container as it was, and a dereference of the still Empty
\* container ends in the 'not initialized' error.
C10_FactoryPanicNotAbsorbed ==
    /\ lazyFailed =>
          /\ lobs = {}
          /\ lazyVal = None
          /\ \A t \in Threads :
                lret[t].op = "deref" => lret[t].out.tag = "Panic"
    /\ \A t \in Threads :
          /\ (oret[t].op = "init" /\ opc[t] = "dead"
                /\ oret[t].out # Panic(InitFailedMessage)) =>
                /\ oret[t].out.tag = "Panic"
                /\ oret[t].post = oret[t].pre
                /\ oret[t].post = None => cell = None \/ cellHist # <<>>
          /\ (oret[t].op = "deref" /\ oret[t].entry = None) =>
                oret[t].out = Panic(NotInitializedMessage)
    /\ cellHist = <<>> => cell = None

C10_Witness ==
    /\ lazyFailed
    /\ \E t \in Threads : lret[t].waited /\ lret[t].out = Panic(PoisonedMessage)

====
